---- MODULE Spec2Model ----
(***************************************************************************)
(* Model of aasw.py, the AASWomen newsletter generator: the body          *)
(* classifier (parsedstr), the item parser (aaswitems) and the main       *)
(* program.  Strings are sequences of one-character strings; offsets are  *)
(* Python's (0-based, end exclusive).                                     *)
(***************************************************************************)
EXTENDS Integers, Sequences, FiniteSets, TLC

\* ------------------------------------------------------------------ bounds
\* Longest body, in tokens, handed to parsedstr with job=False / job=True.
MaxTok == 5
MaxJobTok == 3
\* Most blocks in the primary document.
MaxBlocks == 2

\* ------------------------------------------------------- program constants
job_opp_boilerplate ==
    << "\n",
       "F", "o", "r", " ", "t", "h", "o", "s", "e", " ", "i", "n", "t", "e", "r", "e",
       "s", "t", "e", "d", " ", "i", "n", " ", "i", "n", "c", "r", "e", "a", "s", "i",
       "n", "g", " ", "e", "x", "c", "e", "l", "l", "e", "n", "c", "e", " ", "a", "n",
       "d", " ", "d", "i", "v", "e", "r", "s", "i", "t", "y", " ", "i", "n", " ", "t",
       "h", "e", "i", "r", " ", "o", "r", "g", "a", "n", "i", "z", "a", "t", "i", "o",
       "n", "s", ",", " ", "a", " ", "l", "i", "s", "t", " ", "o", "f", " ", "r", "e",
       "s", "o", "u", "r", "c", "e", "s", " ", "a", "n", "d", " ", "a", "d", "v", "i",
       "c", "e", " ", "i", "s", " ", "h", "e", "r", "e", ":", "\n",
       "\n",
       "h", "t", "t", "p", "s", ":", "/", "/", "a", "a", "s", ".", "o", "r", "g", "/",
       "c", "o", "m", "m", "s", "/", "c", "s", "w", "a", "/", "r", "e", "s", "o", "u",
       "r", "c", "e", "s", "/", "D", "i", "v", "e", "r", "s", "i", "t", "y", "#", "h",
       "o", "w", "t", "o", "i", "n", "c", "r", "e", "a", "s", "e", "\n",
       "\n" >>

\* ------------------------------------------------------ strings and classes
Ch(str, i) == str[i + 1]
Slice(str, a, b) == SubSeq(str, a + 1, b)

Max(S) == CHOOSE x \in S : \A y \in S : y <= x
Min(S) == CHOOSE x \in S : \A y \in S : x <= y

Range(f) == {f[x] : x \in DOMAIN f}

RECURSIVE Flatten(_)
Flatten(ss) == IF ss = <<>> THEN <<>> ELSE Head(ss) \o Flatten(Tail(ss))

Letters ==
    {"a", "b", "c", "d", "e", "f", "g", "h", "i", "j", "k", "l", "m",
     "n", "o", "p", "q", "r", "s", "t", "u", "v", "w", "x", "y", "z",
     "A", "B", "C", "D", "E", "F", "G", "H", "I", "J", "K", "L", "M",
     "N", "O", "P", "Q", "R", "S", "T", "U", "V", "W", "X", "Y", "Z"}
Digits == {"0", "1", "2", "3", "4", "5", "6", "7", "8", "9"}

\* \w and \s of Python's re, and the line boundaries of str.splitlines
WordChars == Letters \cup Digits \cup {"_"}
Whitespace == {" ", "\t", "\n", "\r", "\f"}
LineBreaks == {"\n", "\r", "\f"}

\* $ without re.MULTILINE: the end, or just before a final newline
AtDollar(str, i) == i = Len(str) \/ (i = Len(str) - 1 /\ Ch(str, i) = "\n")

\* \b
WordBoundary(str, i) ==
    (i > 0 /\ Ch(str, i - 1) \in WordChars)
        # (i < Len(str) /\ Ch(str, i) \in WordChars)

MatchLit(str, i, lit) ==
    i + Len(lit) <= Len(str) /\ Slice(str, i, i + Len(lit)) = lit

\* end of the longest run of characters of class cls starting at i
RunEnd(str, i, cls) ==
    CHOOSE k \in i..Len(str) :
        /\ k = Len(str) \/ Ch(str, k) \notin cls
        /\ \A m \in i..(k - 1) : Ch(str, m) \in cls

RECURSIVE rstrip(_)
rstrip(str) ==
    IF str # <<>> /\ str[Len(str)] \in Whitespace
    THEN rstrip(SubSeq(str, 1, Len(str) - 1))
    ELSE str

\* html.escape (quote=True), one element per source character
EscapeChar(c) ==
    CASE c = "&" -> "&amp;"
      [] c = "<" -> "&lt;"
      [] c = ">" -> "&gt;"
      [] c = "\"" -> "&quot;"
      [] c = "'" -> "&#x27;"
      [] OTHER -> c
html_escape(str) == [i \in 1..Len(str) |-> EscapeChar(str[i])]

\* --------------------------------------------------------- dual-format nodes
\* html markup literals are kept as single elements of the html sequence
\* a variant that keeps the escaped form as the plain text too
texthtmlstr_escaped_text(str) == [text |-> html_escape(str), html |-> html_escape(str)]
texthtmlstr(str) == [text |-> str, html |-> html_escape(str)]
urlstr(url) ==
    [text |-> url, html |-> <<"<a href=\"">> \o url \o <<"\">">> \o url \o <<"</a>">>]
parabreakstr(after_single) ==
    [text |-> IF after_single THEN <<"\n">> ELSE <<"\n", "\n">>,
     html |-> <<"</p><p>">>]

\* ------------------------------------------------------ parsedstr: the scans
\* parbreak_regex \n\s*\n matched at offset i: the end of the match, or -1
ParbreakMatchEnd(str, i) ==
    IF i < Len(str) /\ Ch(str, i) = "\n"
    THEN LET j == RunEnd(str, i + 1, Whitespace)
             nl == {m \in (i + 1)..(j - 1) : Ch(str, m) = "\n"}
         IN  IF nl = {} THEN -1 ELSE Max(nl) + 1
    ELSE -1

RECURSIVE FindParbreaks(_, _)
\* re.finditer(parbreak_regex, s) from offset pos: leftmost match, then on
\* from its end
FindParbreaks(str, pos) ==
    LET at == {i \in pos..(Len(str) - 1) : ParbreakMatchEnd(str, i) # -1}
    IN  IF at = {} THEN <<>>
        ELSE LET i == Min(at)
                 e == ParbreakMatchEnd(str, i)
             IN  <<[start |-> i, end |-> e, type |-> "p", value |-> <<>>]>>
                     \o FindParbreaks(str, e)

Schemes ==
    << <<"h", "t", "t", "p">>, <<"h", "t", "t", "p", "s">>,
       <<"t", "e", "l", "n", "e", "t">>, <<"g", "o", "p", "h", "e", "r">>,
       <<"f", "i", "l", "e">>, <<"w", "a", "i", "s">>, <<"f", "t", "p">> >>

\* [\w/#~:.?+=&%@!\-.:?\\-] and the class negated in the lookahead, which
\* has no backslash
UrlPunct == {"/", "#", "~", ":", ".", "?", "+", "=", "&", "%", "@", "!", "-"}
UrlChars == WordChars \cup UrlPunct \cup {"\\"}
UrlTailChars == WordChars \cup UrlPunct
TrailPunct == {".", ":", "?", "-"}

\* (?:https?|telnet|gopher|file|wais|ftp): at offset i: offset after the colon, or -1
SchemeEnd(str, i) ==
    LET hits == {k \in 1..Len(Schemes) : MatchLit(str, i, Schemes[k] \o <<":">>)}
    IN  IF hits = {} THEN -1 ELSE i + Len(Schemes[CHOOSE k \in hits : TRUE]) + 1

\* (?=[.:?\-]*(?:[^...]|$)) at offset e
UrlLookahead(str, e) ==
    LET k == RunEnd(str, e, TrailPunct)
    IN  \E m \in e..k :
            \/ (m < Len(str) /\ Ch(str, m) \notin UrlTailChars)
            \/ AtDollar(str, m)

\* [...]+? followed by the lookahead, from offset p: the fewest characters
\* of the class (at least one) after which the lookahead holds
UrlLazy(str, p) ==
    LET q == RunEnd(str, p, UrlChars)
        ends == {e \in (p + 1)..q : UrlLookahead(str, e)}
    IN  IF ends = {} THEN -1 ELSE Min(ends)

\* url_regex matched at offset i: the end of the match, or -1
UrlMatchEnd(str, i) ==
    IF ~WordBoundary(str, i) THEN -1
    ELSE LET p == SchemeEnd(str, i)
         IN  IF p = -1 THEN -1 ELSE UrlLazy(str, p)

RECURSIVE FindUrls(_, _)
\* re.finditer(url_regex, s) from offset pos: leftmost match, then on from
\* its end
FindUrls(str, pos) ==
    LET at == {i \in pos..(Len(str) - 1) : UrlMatchEnd(str, i) # -1}
    IN  IF at = {} THEN <<>>
        ELSE LET i == Min(at)
                 e == UrlMatchEnd(str, i)
             IN  <<[start |-> i, end |-> e, type |-> "u",
                     value |-> Slice(str, i, e)]>> \o FindUrls(str, e)

\* ------------------------------------------------ parsedstr: the resolution
RECURSIVE InsertByStart(_, _)
InsertByStart(sorted, x) ==
    IF sorted = <<>> THEN <<x>>
    ELSE IF Head(sorted).start <= x.start
         THEN <<Head(sorted)>> \o InsertByStart(Tail(sorted), x)
         ELSE <<x>> \o sorted

RECURSIVE SortByStart(_)
\* list.sort(key=itemgetter('start')): stable
SortByStart(segs) ==
    IF segs = <<>> THEN <<>>
    ELSE InsertByStart(SortByStart(SubSeq(segs, 1, Len(segs) - 1)), segs[Len(segs)])

\* the two finditer loops, paragraph breaks first
FindSpans(str) == FindParbreaks(str, 0) \o FindUrls(str, 0)

PlainSeg(str, a, b) == [start |-> a, end |-> b, type |-> "t", value |-> Slice(str, a, b)]

\* a variant that also fills the empty gap before an adjoining span
GapAppend_fill_empty(segs, i, cur, str) ==
    IF segs[i + 1].start >= cur
    THEN Append(segs, PlainSeg(str, cur, segs[i + 1].start))
    ELSE segs

\* one iteration of the gap loop at index i (0-based) with current_pos = cur
GapAppend(segs, i, cur, str) ==
    IF segs[i + 1].start > cur
    THEN Append(segs, PlainSeg(str, cur, segs[i + 1].start))
    ELSE segs

\* the check for the final gap
FinalGapAppend(segs, cur, str) ==
    IF cur < Len(str) THEN Append(segs, PlainSeg(str, cur, Len(str))) ELSE segs

RECURSIVE GapLoop(_, _, _, _, _)
\* for segi in range(n), from index i on, followed by the final gap check
GapLoop(segs, i, n, cur, str) ==
    IF i = n THEN FinalGapAppend(segs, cur, str)
    ELSE GapLoop(GapAppend(segs, i, cur, str), i + 1, n, segs[i + 1].end, str)

\* ------------------------------------------------- parsedstr: the emission
RECURSIVE splitlines(_)
splitlines(str) ==
    IF str = <<>> THEN <<>>
    ELSE LET brk == {k \in 1..Len(str) : str[k] \in LineBreaks}
         IN  IF brk = {} THEN <<str>>
             ELSE LET k == CHOOSE x \in brk : \A y \in brk : x <= y
                      crlf == str[k] = "\r" /\ k < Len(str) /\ str[k + 1] = "\n"
                      nxt == IF crlf THEN k + 2 ELSE k + 1
                  IN  <<SubSeq(str, 1, k - 1)>> \o splitlines(SubSeq(str, nxt, Len(str)))

\* one line of a plain segment of a Job Opportunities body
JobLineNode(jobline) ==
    LET a == RunEnd(jobline, 0, {" "})
    IN  IF a < Len(jobline) /\ Ch(jobline, a) = "-"
        THEN LET b == RunEnd(jobline, a + 1, {" "})
                 n == texthtmlstr(<<"-", " ">> \o Slice(jobline, b, Len(jobline)) \o <<"\n">>)
             IN  [text |-> n.text, html |-> n.html \o <<"<br />">>]
        ELSE texthtmlstr(jobline)

\* the nodes appended for one segment
SegNodes(seg, isjob) ==
    CASE seg.type = "p" -> <<parabreakstr(FALSE)>>
      [] seg.type = "u" -> <<urlstr(seg.value)>>
      [] seg.type = "t" ->
            IF isjob
            THEN LET ls == splitlines(seg.value)
                 IN  [k \in 1..Len(ls) |-> JobLineNode(ls[k])]
            ELSE <<texthtmlstr(seg.value)>>

EmitNodes(segs, isjob) == Flatten([k \in 1..Len(segs) |-> SegNodes(segs[k], isjob)])

\* the string classified: the body, after the boilerplate when job
Effective(str, isjob) == IF isjob THEN job_opp_boilerplate \o str ELSE str

\* parsedstr(s, job).texthtml_strings
parsedstr(str0, isjob) ==
    LET str == Effective(str0, isjob)
        spans == FindSpans(str)
    IN  IF Len(spans) = 0 THEN <<>>
        ELSE EmitNodes(
                 SortByStart(GapLoop(SortByStart(spans), 0, Len(spans), 0, str)),
                 isjob)

\* mixedstr.print_text
print_text(nodes) == Flatten([k \in 1..Len(nodes) |-> nodes[k].text])
\* mixedstr.print_html
print_html(nodes) ==
    <<"<p>">> \o Flatten([k \in 1..Len(nodes) |-> nodes[k].html]) \o <<"</p>">>

\* --------------------------------------------------- aaswitems: the fields
UpperSeq ==
    <<"A", "B", "C", "D", "E", "F", "G", "H", "I", "J", "K", "L", "M",
      "N", "O", "P", "Q", "R", "S", "T", "U", "V", "W", "X", "Y", "Z">>
LowerSeq ==
    <<"a", "b", "c", "d", "e", "f", "g", "h", "i", "j", "k", "l", "m",
      "n", "o", "p", "q", "r", "s", "t", "u", "v", "w", "x", "y", "z">>

\* case folding of re.IGNORECASE
Lower(c) ==
    LET ks == {k \in 1..Len(UpperSeq) : UpperSeq[k] = c}
    IN  IF ks = {} THEN c ELSE LowerSeq[CHOOSE k \in ks : TRUE]

\* a literal at offset i, under re.IGNORECASE when ci
MatchField(str, i, lit, ci) ==
    /\ i + Len(lit) <= Len(str)
    /\ \A k \in 1..Len(lit) :
           IF ci THEN Lower(str[i + k]) = Lower(lit[k]) ELSE str[i + k] = lit[k]

\* ^ under re.MULTILINE
LineStarts(str) == {i \in 0..Len(str) : i = 0 \/ Ch(str, i - 1) = "\n"}
\* the end of the line holding offset i: where (.*)$ stops under re.MULTILINE
LineEnd(str, i) == RunEnd(str, i, {c \in Range(str) : c # "\n"})

\* re.search('^<name> ?(.*)$', itemtext, re.MULTILINE [| re.IGNORECASE]):
\* the offset of the first match, or -1
FieldStart(str, name, ci) ==
    LET at == {i \in LineStarts(str) : MatchField(str, i, name, ci)}
    IN  IF at = {} THEN -1 ELSE Min(at)

\* group(1) of that match
FieldValue(str, name, ci) ==
    LET b == FieldStart(str, name, ci) + Len(name)
        v == IF b < Len(str) /\ Ch(str, b) = " " THEN b + 1 ELSE b
    IN  Slice(str, v, LineEnd(str, v))

\* group(1) of re.search('^text:\s*(.*)', itemtext, MULTILINE | IGNORECASE | DOTALL)
BodyValue(str) ==
    LET b == FieldStart(str, <<"t", "e", "x", "t", ":">>, TRUE) + 5
    IN  Slice(str, RunEnd(str, b, Whitespace), Len(str))

\* re.match(' *$', str), also re.match('^ *$', str)
AllSpaces(str) == AtDollar(str, RunEnd(str, 0, {" "}))

\* re.search(' *Job Opportunities *', title, re.IGNORECASE) is not None
JobTitle ==
    <<"J", "o", "b", " ", "O", "p", "p", "o", "r", "t", "u", "n", "i", "t", "i", "e", "s">>
IsJob(title) == \E i \in 0..Len(title) : MatchField(title, i, JobTitle, TRUE)

Delim == <<"-", "-", "-">>
RECURSIVE Split(_)
\* re.split(r'---', filetext)
Split(text) ==
    LET at == {i \in 0..(Len(text) - 3) : MatchLit(text, i, Delim)}
    IN  IF at = {} THEN <<text>>
        ELSE LET i == Min(at)
             IN  <<Slice(text, 0, i)>> \o Split(Slice(text, i + 3, Len(text)))

ImgUrl == <<"i", "m", "g", "-", "u", "r", "l", ":">>
ImgCaption == <<"i", "m", "g", "-", "c", "a", "p", "t", "i", "o", "n", ":">>
TitleField == <<"t", "i", "t", "l", "e", ":">>
FromField == <<"f", "r", "o", "m", ":">>
TextField == <<"t", "e", "x", "t", ":">>

\* a variant that takes a block for the header only when its img-url: value
\* is not blank
BlockKind_header_needs_url(itemtext) ==
    IF AllSpaces(itemtext) THEN "skip"
    ELSE IF /\ FieldStart(itemtext, ImgUrl, FALSE) # -1
            /\ ~AllSpaces(FieldValue(itemtext, ImgUrl, FALSE))
         THEN "header"
    ELSE IF FieldStart(itemtext, TitleField, TRUE) = -1 THEN "no_title"
    ELSE IF FieldStart(itemtext, TextField, TRUE) = -1 THEN "no_text"
    ELSE "item"

\* what one pass of the inner loop does with a block:
\* "skip", "header", "item", "no_title" or "no_text"
BlockKind(itemtext) ==
    IF AllSpaces(itemtext) THEN "skip"
    ELSE IF FieldStart(itemtext, ImgUrl, FALSE) # -1 THEN "header"
    ELSE IF FieldStart(itemtext, TitleField, TRUE) = -1 THEN "no_title"
    ELSE IF FieldStart(itemtext, TextField, TRUE) = -1 THEN "no_text"
    ELSE "item"

\* this_item, for a block of kind "item"
MakeItem(itemtext) ==
    LET title == rstrip(FieldValue(itemtext, TitleField, TRUE))
        hasfrom == FieldStart(itemtext, FromField, TRUE) # -1
    IN  [title |-> title,
         hasfrom |-> hasfrom,
         from |-> IF hasfrom THEN FieldValue(itemtext, FromField, TRUE) ELSE <<>>,
         text |-> parsedstr(rstrip(BodyValue(itemtext)), IsJob(title))]

NoImage == [url |-> <<>>, caption |-> texthtmlstr(<<>>), hascaption |-> FALSE]

\* self.image after a block of kind "header"
HeaderImage(image, itemtext) ==
    LET url == FieldValue(itemtext, ImgUrl, FALSE)
    IN  IF AllSpaces(url) THEN image
        ELSE IF FieldStart(itemtext, ImgCaption, FALSE) # -1
             THEN [url |-> url,
                   caption |-> texthtmlstr(FieldValue(itemtext, ImgCaption, FALSE)),
                   hascaption |-> TRUE]
             ELSE [image EXCEPT !.url = url]

\* a variant whose message leaves the block out
MissingField_without_block(kind, itemtext) ==
    [type |-> "ValueError",
     msg |-> <<IF kind = "no_title"
               THEN "Title could not be found for the following item:"
               ELSE "Text body could not be found for the following item:",
               "\n", "\n">>]

\* the ValueError raised for a block of kind "no_title" or "no_text"
MissingField(kind, itemtext) ==
    [type |-> "ValueError",
     msg |-> <<IF kind = "no_title"
               THEN "Title could not be found for the following item:"
               ELSE "Text body could not be found for the following item:",
               "\n">> \o itemtext \o <<"\n">>]

\* ----------------------------------------------------- main: the file names
NonSpace(str) == {c \in Range(str) : c \notin Whitespace}

\* the match of (\.\S+)?$ at offset i: its end, or -1
ExtMatchEnd(str, i) ==
    LET ends == IF i < Len(str) /\ Ch(str, i) = "."
                THEN {e \in (i + 2)..RunEnd(str, i + 1, NonSpace(str)) : AtDollar(str, e)}
                ELSE {}
    IN  IF ends # {} THEN Max(ends)
        ELSE IF AtDollar(str, i) THEN i
        ELSE -1

\* re.sub('(\.\S+)?$', repl, str, count=1)
SubExt(repl, str) ==
    LET i == Min({k \in 0..Len(str) : ExtMatchEnd(str, k) # -1})
    IN  Slice(str, 0, i) \o repl \o Slice(str, ExtMatchEnd(str, i), Len(str))

\* re.match('\.txt$', input_fname)
ClobberMatch(fname) == MatchLit(fname, 0, <<".", "t", "x", "t">>) /\ AtDollar(fname, 4)

\* ------------------------------------------------------------------ state
VARIABLES
    \* parsedstr.__init__
    s, job, segments, nspans, segi, current_pos, emiti, texthtml_strings, pc,
    \* __main__, aaswitems.__init__ and build_newsletter
    argv, input_fname, out_html_fname, out_txt_fname, docs, filei, itemtexts,
    blocki, items, image, newsletter, opened, written, stdout, exc,
    exit_status, mpc

segvars ==
    <<s, job, segments, nspans, segi, current_pos, emiti, texthtml_strings, pc>>
mainvars ==
    <<argv, input_fname, out_html_fname, out_txt_fname, docs, filei, itemtexts,
      blocki, items, image, newsletter, opened, written, stdout, exc,
      exit_status, mpc>>
vars == <<segvars, mainvars>>

NoExc == [type |-> "none", msg |-> <<>>]

\* ------------------------------------------------------------------ inputs
RECURSIVE TokStrings(_, _)
\* the strings made of at most n tokens
TokStrings(toks, n) ==
    IF n = 0 THEN {<<>>}
    ELSE LET prev == TokStrings(toks, n - 1)
         IN  prev \cup {p \o tk : p \in prev, tk \in toks}

BodyTokens ==
    {<<"f", "t", "p", ":">>, <<"a">>, <<".">>, <<"\n">>, <<" ">>, <<"<">>, <<"-">>}
JobBodyTokens == {<<"-">>, <<"a">>, <<"\n">>, <<" ">>}

SegIdle ==
    /\ s = <<>> /\ job = FALSE /\ segments = <<>> /\ nspans = 0 /\ segi = 0
    /\ current_pos = 0 /\ emiti = 0 /\ texthtml_strings = <<>> /\ pc = "idle"

MainIdle ==
    /\ argv = <<>> /\ input_fname = <<>> /\ out_html_fname = <<>>
    /\ out_txt_fname = <<>> /\ docs = <<>> /\ filei = 0 /\ itemtexts = <<>>
    /\ blocki = 0 /\ items = <<>> /\ image = NoImage /\ newsletter = <<>>
    /\ opened = {} /\ written = {} /\ stdout = <<>> /\ exc = NoExc
    /\ exit_status = -1 /\ mpc = "idle"

\* -------------------------------------------------- parsedstr.__init__, stepwise
InitSeg ==
    /\ job \in BOOLEAN
    /\ s \in IF job THEN TokStrings(JobBodyTokens, MaxJobTok)
                    ELSE TokStrings(BodyTokens, MaxTok)
    /\ segments = <<>> /\ nspans = 0 /\ segi = 0 /\ current_pos = 0
    /\ emiti = 0 /\ texthtml_strings = <<>> /\ pc = "scan"
    /\ MainIdle

\* the boilerplate is prepended and both scans run; no span at all returns
ScanSpans ==
    /\ pc = "scan"
    /\ s' = Effective(s, job)
    /\ segments' = FindSpans(s')
    /\ pc' = IF Len(segments') = 0 THEN "done" ELSE "sort"
    /\ UNCHANGED <<job, nspans, segi, current_pos, emiti, texthtml_strings>>
    /\ UNCHANGED mainvars

SortSpans ==
    /\ pc = "sort"
    /\ segments' = SortByStart(segments)
    /\ current_pos' = 0
    /\ segi' = 0
    /\ nspans' = Len(segments)
    /\ pc' = "gaps"
    /\ UNCHANGED <<s, job, emiti, texthtml_strings>>
    /\ UNCHANGED mainvars

\* one iteration of for segi in range(len(segments))
GapStep ==
    /\ pc = "gaps"
    /\ segi < nspans
    /\ segments' = GapAppend(segments, segi, current_pos, s)
    /\ current_pos' = segments[segi + 1].end
    /\ segi' = segi + 1
    /\ UNCHANGED <<s, job, nspans, emiti, texthtml_strings, pc>>
    /\ UNCHANGED mainvars

\* the final gap and the second sort
FinalGap ==
    /\ pc = "gaps"
    /\ segi = nspans
    /\ segments' = SortByStart(FinalGapAppend(segments, current_pos, s))
    /\ emiti' = 0
    /\ pc' = "emit"
    /\ UNCHANGED <<s, job, nspans, segi, current_pos, texthtml_strings>>
    /\ UNCHANGED mainvars

\* one iteration of for seg in segments
EmitStep ==
    /\ pc = "emit"
    /\ emiti < Len(segments)
    /\ texthtml_strings' = texthtml_strings \o SegNodes(segments[emiti + 1], job)
    /\ emiti' = emiti + 1
    /\ UNCHANGED <<s, job, segments, nspans, segi, current_pos, pc>>
    /\ UNCHANGED mainvars

Return ==
    /\ pc = "emit"
    /\ emiti = Len(segments)
    /\ pc' = "done"
    /\ UNCHANGED <<s, job, segments, nspans, segi, current_pos, emiti, texthtml_strings>>
    /\ UNCHANGED mainvars

NextSeg == ScanSpans \/ SortSpans \/ GapStep \/ FinalGap \/ EmitStep \/ Return

SpecSeg == InitSeg /\ [][NextSeg]_vars

\* ------------------------------------------------------ inputs of __main__
\* blocks of a document, as written between delimiters
\* skipped
BlankNewline ==
    <<"\n">>
\* skipped
BlankSpace ==
    <<" ">>
\* whitespace only, two newlines
BlankLines ==
    <<"\n", "\n">>
\* whitespace only, a tab
BlankTab ==
    <<"\t">>
\* image header with caption
ImgBlock ==
    <<"\n", "i", "m", "g", "-", "u", "r", "l", ":", " ", "u", "\n", "i",
      "m", "g", "-", "c", "a", "p", "t", "i", "o", "n", ":", " ", "<", "c",
      "\n">>
\* image header without caption
ImgNoCaption ==
    <<"\n", "i", "m", "g", "-", "u", "r", "l", ":", " ", "u", "\n">>
\* img-url: line with a blank value
ImgBlankUrl ==
    <<"\n", "i", "m", "g", "-", "u", "r", "l", ":", " ", "\n">>
\* img-url: line next to title and text
ImgWithFields ==
    <<"\n", "i", "m", "g", "-", "u", "r", "l", ":", " ", "u", "\n", "t",
      "i", "t", "l", "e", ":", " ", "A", "\n", "t", "e", "x", "t", ":",
      " ", "x", "\n">>
\* item
ItemA ==
    <<"\n", "t", "i", "t", "l", "e", ":", " ", "A", "\n", "t", "e", "x",
      "t", ":", " ", "x", "\n">>
\* item with from, a break and a URL
ItemB ==
    <<"\n", "T", "i", "t", "l", "e", ":", " ", "B", "\n", "f", "r", "o",
      "m", ":", " ", "f", "\n", "t", "e", "x", "t", ":", " ", "<", "b",
      "\n", "\n", "f", "t", "p", ":", "a", ".", "\n">>
\* title: line with an empty value
ItemEmptyTitle ==
    <<"\n", "t", "i", "t", "l", "e", ":", " ", "\n", "t", "e", "x", "t",
      ":", " ", "x", "\n">>
\* no text: line
ItemNoText ==
    <<"\n", "t", "i", "t", "l", "e", ":", " ", "A", "\n">>
\* no title: line
ItemNoTitle ==
    <<"\n", "t", "e", "x", "t", ":", " ", "x", "\n">>
\* Job Opportunities item
ItemJob ==
    <<"\n", "t", "i", "t", "l", "e", ":", " ", "j", "o", "b", " ", "o",
      "p", "p", "o", "r", "t", "u", "n", "i", "t", "i", "e", "s", "\n",
      "t", "e", "x", "t", ":", " ", "-", " ", "a", "\n", "f", "t", "p",
      ":", "a", "\n">>
BlockPool ==
    {BlankNewline, BlankSpace, BlankLines, BlankTab,
     ImgBlock, ImgNoCaption, ImgBlankUrl, ImgWithFields,
     ItemA, ItemB, ItemEmptyTitle, ItemNoText,
     ItemNoTitle, ItemJob}
Prog == <<"a", "a", "s", "w", ".", "p", "y">>
DraftTxt == <<"d", "r", "a", "f", "t", ".", "t", "x", "t">>
DraftJaml == <<"d", "r", "a", "f", "t", ".", "j", "a", "m", "l">>
DraftBare == <<"d", "r", "a", "f", "t">>
DotTxt == <<".", "t", "x", "t">>
FileNames == {DraftTxt, DraftJaml, DraftBare, DotTxt}
ArgvChoices ==
    {<<Prog>>, <<Prog, DraftJaml, DraftTxt>>} \cup {<<Prog, f>> : f \in FileNames}

RECURSIVE DocsOf(_)
\* the documents of at most n pool blocks, each after a delimiter
DocsOf(n) ==
    IF n = 0 THEN {<<>>}
    ELSE LET prev == DocsOf(n - 1)
         IN  prev \cup {d \o Delim \o b : d \in prev, b \in BlockPool}

\* contents of final-items.jaml
FinalDocs == {<<>>, Delim \o ItemA \o Delim \o BlankNewline}

\* the two files read, given the command line: every pool document for
\* draft.jaml, two documents for the other names
DocPairs(fname) ==
    IF fname = DraftJaml
    THEN DocsOf(MaxBlocks) \X FinalDocs
    ELSE {<<Delim \o ItemA, <<>> >>, <<Delim \o ItemNoTitle, <<>> >>,
          <<Delim \o ImgBlock \o Delim \o ItemB, Delim \o ItemA>>}

\* --------------------------------------------------------- build_newsletter
singleline(str) ==
    [text |-> rstrip(str) \o <<"\n">>, html |-> html_escape(str) \o <<"<br />\n">>]
htmlonly(code) == [text |-> <<>>, html |-> code]
separator ==
    [text |-> <<"-------------------------------------------------------------------------------\n">>,
     html |-> <<"<hr />">>]
titleline(text, itemnumber, uniqident, from_toc) ==
    LET num == ToString(itemnumber)
        itemstring == IF uniqident # <<>>
                      THEN <<"item">> \o uniqident \o <<"-", num>>
                      ELSE <<"item", num>>
    IN  [text |-> <<num, ". ">> \o text \o <<"\n">>,
         html |-> IF from_toc
                  THEN <<"<a href=\"#">> \o itemstring \o <<"\">", num, ". ">>
                           \o text \o <<"</a><br />\n">>
                  ELSE <<"<div id=\"">> \o itemstring \o <<"\">", num, ". ">>
                           \o text \o <<"</div>\n">>]

\* the date strings of the coming Friday, left symbolic
issue_datestr == <<"{issue_datestr}">>
uniqident == <<"{uniqident}">>
editor_list == <<"Jeremy Bailin, Nicolle Zellner, Sethanne Howard, and Hannah Jang-Condell">>
OnlineNote ==
    <<"A", "n", " ", "o", "n", "l", "i", "n", "e", " ", "v", "e", "r", "s",
      "i", "o", "n", " ", "o", "f", " ", "t", "h", "i", "s", " ", "n", "e",
      "w", "s", "l", "e", "t", "t", "e", "r", " ", "w", "i", "l", "l", " ",
      "b", "e", " ", "a", "v", "a", "i", "l", "a", "b", "l", "e", " ", "a",
      "t", " ", "h", "t", "t", "p", ":", "/", "/", "w", "o", "m", "e", "n",
      "i", "n", "a", "s", "t", "r", "o", "n", "o", "m", "y", ".", "b", "l",
      "o", "g", "s", "p", "o", "t", ".", "c", "o", "m", "/", " ", "a", "t",
      " ", "3", ":", "0", "0", " ", "P", "M", " ", "E", "T", " ", "e", "v",
      "e", "r", "y", " ", "F", "r", "i", "d", "a", "y", ".">>

ImgHtml(img) ==
    htmlonly(
        <<"<div class=\"separator\" style=\"clear: both;\"><a href=\"">>
            \o img.url
            \o <<"\" style=\"display: block; padding: 1em 0; text-align: center; clear: right; float: right;\"><img alt=\"\" border=\"0\" width=\"320\" data-original-height=\"{height}\" data-original-width=\"{width}\" src=\"">>
            \o img.url \o <<"\"><br />">> \o img.caption.html \o <<"</a></div>">>)

\* the nodes added for item number ti
ItemNodes(item, ti) ==
    <<parabreakstr(TRUE), separator, titleline(item.title, ti, uniqident, FALSE)>>
        \o (IF item.hasfrom
            THEN <<texthtmlstr(<<"From: ">> \o item.from), parabreakstr(TRUE)>>
            ELSE <<>>)
        \o <<parabreakstr(TRUE)>>
        \o item.text
        \o <<parabreakstr(TRUE),
             htmlonly(<<"<a href=\"#">> \o uniqident \o <<"-top\">Back to top.</a></p>">>)>>

\* the newsletter's texthtml_strings
Assemble(its, img) ==
    (IF img.url # <<>> THEN <<ImgHtml(img)>> ELSE <<>>)
        \o <<htmlonly(<<"<div id=\"">> \o uniqident \o <<"-top\"></div>">>),
             singleline(<<"AAS Committee on the Status of Women">>),
             singleline(<<"Issue of ">> \o issue_datestr),
             singleline(<<"eds: ">> \o editor_list),
             parabreakstr(TRUE),
             singleline(<<"[We hope you all are taking care of yourselves and each other. --eds.]">>),
             parabreakstr(TRUE),
             singleline(<<"This week's issues:">>),
             parabreakstr(TRUE)>>
        \o [k \in 1..Len(its) |-> titleline(its[k].title, k, uniqident, TRUE)]
        \o <<parabreakstr(TRUE)>>
        \o parsedstr(OnlineNote, FALSE)
        \o <<htmlonly(<<"<!--more-->">>), parabreakstr(TRUE)>>
        \o Flatten([k \in 1..Len(its) |-> ItemNodes(its[k], k)])

\* ------------------------------------------------------------------ __main__
Init ==
    /\ SegIdle
    /\ argv \in ArgvChoices
    /\ input_fname = <<>> /\ out_html_fname = <<>> /\ out_txt_fname = <<>>
    /\ docs = <<>> /\ filei = 0 /\ itemtexts = <<>> /\ blocki = 0
    /\ items = <<>> /\ image = NoImage /\ newsletter = <<>>
    /\ opened = {} /\ written = {} /\ stdout = <<>> /\ exc = NoExc
    /\ exit_status = -1 /\ mpc = "start"

\* an exception nobody catches ends the run with status 1
Raise(e) ==
    /\ exc' = e
    /\ exit_status' = 1
    /\ mpc' = "exit"

\* usage(): the argument count is not 2
Usage ==
    /\ mpc = "start"
    /\ Len(argv) # 2
    /\ stdout' = Append(stdout, <<"Usage: ">> \o argv[1] \o <<" infile\n">>)
    /\ exit_status' = 1
    /\ mpc' = "exit"
    /\ UNCHANGED <<input_fname, out_html_fname, out_txt_fname, docs, filei,
                   itemtexts, blocki, items, image, newsletter, opened,
                   written, exc, argv>>
    /\ UNCHANGED segvars

ClobberWarning ==
    <<"Warning! Rename input file to have a different extension so the .txt file does not get clobbered.\n">>

\* the output names and the check against overwriting the input
NameOutputs ==
    /\ mpc = "start"
    /\ Len(argv) = 2
    /\ input_fname' = argv[2]
    /\ out_html_fname' = SubExt(<<".", "h", "t", "m", "l">>, argv[2])
    /\ IF ClobberMatch(argv[2])
       THEN /\ stdout' = Append(stdout, ClobberWarning)
            /\ exit_status' = 1
            /\ mpc' = "exit"
            /\ UNCHANGED out_txt_fname
       ELSE /\ out_txt_fname' = SubExt(<<".", "t", "x", "t">>, argv[2])
            /\ mpc' = "read"
            /\ UNCHANGED <<stdout, exit_status>>
    /\ UNCHANGED <<docs, filei, itemtexts, blocki, items, image, newsletter,
                   opened, written, exc, argv>>
    /\ UNCHANGED segvars

\* aaswitems.__init__ up to the first split: both files are read
ReadFiles ==
    /\ mpc = "read"
    /\ \/ \E pair \in DocPairs(input_fname) :
              /\ docs' = pair
              /\ filei' = 1
              /\ itemtexts' = Split(pair[1])
              /\ blocki' = 1
              /\ items' = <<>>
              /\ image' = NoImage
              /\ mpc' = "parse"
              /\ UNCHANGED <<exc, exit_status>>
       \/ /\ Raise([type |-> "FileNotFoundError", msg |-> input_fname])
          /\ UNCHANGED <<docs, filei, itemtexts, blocki, items, image>>
    /\ UNCHANGED <<argv, input_fname, out_html_fname, out_txt_fname,
                   newsletter, opened, written, stdout>>
    /\ UNCHANGED segvars

\* a variant that puts the new item first
AddItem_in_front(its, it) == <<it>> \o its

\* self.items.append(this_item)
AddItem(its, it) == Append(its, it)

\* one pass of for itemtext in itemtexts
ParseBlock ==
    /\ mpc = "parse"
    /\ blocki <= Len(itemtexts)
    /\ LET itemtext == itemtexts[blocki]
           kind == BlockKind(itemtext)
       IN  /\ items' = IF kind = "item" THEN AddItem(items, MakeItem(itemtext))
                       ELSE items
           /\ image' = IF kind = "header" THEN HeaderImage(image, itemtext)
                       ELSE image
           /\ IF kind \in {"no_title", "no_text"}
              THEN /\ Raise(MissingField(kind, itemtext))
                   /\ UNCHANGED blocki
              ELSE /\ blocki' = blocki + 1
                   /\ UNCHANGED <<exc, exit_status, mpc>>
    /\ UNCHANGED <<argv, input_fname, out_html_fname, out_txt_fname, docs,
                   filei, itemtexts, newsletter, opened, written, stdout>>
    /\ UNCHANGED segvars

\* for filetext in (fulltext, finaltext,): on to the next text, or done
NextFile ==
    /\ mpc = "parse"
    /\ blocki > Len(itemtexts)
    /\ IF filei < Len(docs)
       THEN /\ filei' = filei + 1
            /\ itemtexts' = Split(docs[filei + 1])
            /\ blocki' = 1
            /\ UNCHANGED mpc
       ELSE /\ filei' = filei + 1
            /\ mpc' = "build"
            /\ UNCHANGED <<itemtexts, blocki>>
    /\ UNCHANGED <<argv, input_fname, out_html_fname, out_txt_fname, docs,
                   items, image, newsletter, opened, written, stdout, exc,
                   exit_status>>
    /\ UNCHANGED segvars

\* build_newsletter(items): the image, when one is named, is fetched first
BuildNewsletter ==
    /\ mpc = "build"
    /\ stdout' = Append(stdout, <<"AASWomen Newsletter for ">> \o issue_datestr)
    /\ \/ /\ image.url # <<>>
          /\ Raise([type |-> "RequestException", msg |-> image.url])
          /\ UNCHANGED newsletter
       \/ /\ image.url # <<>>
          /\ ~image.hascaption
          /\ Raise([type |-> "AttributeError", msg |-> <<"print_html">>])
          /\ UNCHANGED newsletter
       \/ /\ image.url # <<>> => image.hascaption
          /\ newsletter' = Assemble(items, image)
          /\ mpc' = "open_html"
          /\ UNCHANGED <<exc, exit_status>>
    /\ UNCHANGED <<argv, input_fname, out_html_fname, out_txt_fname, docs,
                   filei, itemtexts, blocki, items, image, opened, written>>
    /\ UNCHANGED segvars

FileVars ==
    <<argv, input_fname, out_html_fname, out_txt_fname, docs, filei,
      itemtexts, blocki, items, image, newsletter>>

\* a variant that opens the .html file before the newsletter is built
OpenHtml_before_build ==
    /\ mpc = "build"
    /\ \/ /\ opened' = opened \cup {out_html_fname}
          /\ mpc' = "write_html"
          /\ UNCHANGED <<exc, exit_status>>
       \/ /\ Raise([type |-> "OSError", msg |-> out_html_fname])
          /\ UNCHANGED opened
    /\ UNCHANGED <<written, stdout>>
    /\ UNCHANGED FileVars
    /\ UNCHANGED segvars

\* open(out_html_fname, 'w'): the file is created or truncated, or open fails
OpenHtml ==
    /\ mpc = "open_html"
    /\ \/ /\ opened' = opened \cup {out_html_fname}
          /\ mpc' = "write_html"
          /\ UNCHANGED <<exc, exit_status>>
       \/ /\ Raise([type |-> "OSError", msg |-> out_html_fname])
          /\ UNCHANGED opened
    /\ UNCHANGED <<written, stdout>>
    /\ UNCHANGED FileVars
    /\ UNCHANGED segvars

\* f.write(full_newsletter.print_html()) and the message
WriteHtml ==
    /\ mpc = "write_html"
    /\ \/ /\ written' = written \cup {out_html_fname}
          /\ stdout' = Append(stdout, <<"HTML newsletter written to ">> \o out_html_fname)
          /\ mpc' = "open_txt"
          /\ UNCHANGED <<exc, exit_status>>
       \/ /\ Raise([type |-> "OSError", msg |-> out_html_fname])
          /\ UNCHANGED <<written, stdout>>
    /\ UNCHANGED opened
    /\ UNCHANGED FileVars
    /\ UNCHANGED segvars

\* open(out_txt_fname, 'w')
OpenTxt ==
    /\ mpc = "open_txt"
    /\ \/ /\ opened' = opened \cup {out_txt_fname}
          /\ mpc' = "write_txt"
          /\ UNCHANGED <<exc, exit_status>>
       \/ /\ Raise([type |-> "OSError", msg |-> out_txt_fname])
          /\ UNCHANGED opened
    /\ UNCHANGED <<written, stdout>>
    /\ UNCHANGED FileVars
    /\ UNCHANGED segvars

\* f.write(full_newsletter.print_text()) and the message; the run ends
WriteTxt ==
    /\ mpc = "write_txt"
    /\ \/ /\ written' = written \cup {out_txt_fname}
          /\ stdout' = Append(stdout, <<"Text newsletter written to ">> \o out_txt_fname)
          /\ exit_status' = 0
          /\ mpc' = "exit"
          /\ UNCHANGED exc
       \/ /\ Raise([type |-> "OSError", msg |-> out_txt_fname])
          /\ UNCHANGED <<written, stdout>>
    /\ UNCHANGED opened
    /\ UNCHANGED FileVars
    /\ UNCHANGED segvars

Next ==
    \/ Usage \/ NameOutputs \/ ReadFiles \/ ParseBlock \/ NextFile
    \/ BuildNewsletter \/ OpenHtml \/ WriteHtml \/ OpenTxt \/ WriteTxt

Spec == Init /\ [][Next]_vars

\* ================================================================== claims
\* ------------------------------------------------------ the segment classifier
SegText(segs, str) ==
    Flatten([k \in 1..Len(segs) |-> Slice(str, segs[k].start, segs[k].end)])

\* segs, in list order, tiles [0, Len(str))
Tiles(segs, str) ==
    /\ str # <<>> => Len(segs) > 0
    /\ Len(segs) > 0 => segs[1].start = 0 /\ segs[Len(segs)].end = Len(str)
    /\ \A k \in 1..Len(segs) : segs[k].start < segs[k].end
    /\ \A k \in 1..(Len(segs) - 1) : segs[k].end = segs[k + 1].start
    /\ SegText(segs, str) = str

\* C1: when parsedstr returns, the resolved segment list tiles [0, len(S)):
\* contiguous, non-overlapping, from 0 to len(S), the substrings spelling S;
\* and a non-empty S with no URL and no blank line gives exactly one
\* PlainText segment over the whole of S.
C1_SegmentsTile ==
    pc = "done" =>
        /\ Tiles(segments, s)
        /\ (s # <<>> /\ FindSpans(s) = <<>>) =>
               /\ Len(segments) = 1
               /\ segments[1].type = "t"
               /\ segments[1].start = 0 /\ segments[1].end = Len(s)

NewNodes == SubSeq(texthtml_strings', Len(texthtml_strings) + 1, Len(texthtml_strings'))
EmitsPlain ==
    /\ pc = "emit" /\ emiti < Len(segments) /\ emiti' = emiti + 1
    /\ segments[emiti + 1].type = "t"
PlainKept ==
    print_text(NewNodes) = Slice(s, segments[emiti + 1].start, segments[emiti + 1].end)

\* C8 as claimed: for either value of job, the plain text of the node(s)
\* emitted for a PlainText segment is the substring the segment covers.
C8_PlainTextKept == [][EmitsPlain => PlainKept]_vars

\* C8 amended: with job false, the plain text of the node emitted for a
\* PlainText segment is the substring the segment covers, character for
\* character.
C8_PlainTextKeptNoJob == [][(EmitsPlain /\ ~job) => (Len(NewNodes) = 1 /\ PlainKept)]_vars

\* a body with markup characters in a plain segment has been emitted
C8_Witness ==
    /\ pc = "done" /\ ~job
    /\ \E k \in 1..Len(segments) :
           /\ segments[k].type = "t" /\ "<" \in Range(segments[k].value)
           /\ texthtml_strings[k].text = segments[k].value
           /\ texthtml_strings[k].html # segments[k].value
    /\ \E k \in 1..Len(segments) : segments[k].type = "u"

IsSpan(seg) == seg.type \in {"p", "u"}
SpansDisjoint ==
    \A i, j \in 1..Len(segments) :
        (i # j /\ IsSpan(segments[i]) /\ IsSpan(segments[j])) =>
            /\ segments[i].start # segments[j].start
            /\ segments[i].end <= segments[j].start \/ segments[j].end <= segments[i].start
PlainNonEmpty ==
    \A k \in 1..Len(segments) :
        segments[k].type = "t" => segments[k].start < segments[k].end

\* C10: the paragraph-break and URL spans are pairwise disjoint with distinct
\* starts; in the gap loop current_pos never decreases, and every PlainText
\* segment synthesized has start < end.
C10_SpansDisjoint ==
    /\ [](SpansDisjoint /\ PlainNonEmpty)
    /\ [][current_pos' >= current_pos]_vars

\* the gap loop has run over a break and a URL and has synthesized text
C10_Witness ==
    /\ pc = "emit" /\ current_pos > 0
    /\ \E k \in 1..Len(segments) : segments[k].type = "p"
    /\ \E k \in 1..Len(segments) : segments[k].type = "u"
    /\ \E k \in 1..Len(segments) : segments[k].type = "t"

\* ------------------------------------------------------------ the item parser
WhitespaceOnly(b) == \A k \in 1..Len(b) : b[k] \in Whitespace
HasLine(b, name, ci) == \E i \in LineStarts(b) : MatchField(b, i, name, ci)
\* an img-url: line whose value is not blank
ImgUrlNonBlank(b) ==
    HasLine(b, ImgUrl, FALSE) /\ ~WhitespaceOnly(FieldValue(b, ImgUrl, FALSE))
Contains(str, part) == \E i \in 0..(Len(str) - Len(part)) : MatchLit(str, i, part)

Cur == itemtexts[blocki]
\* a pass of the block loop is taken
ParseStep ==
    /\ mpc = "parse" /\ blocki <= Len(itemtexts)
    /\ blocki' = blocki + 1 \/ mpc' = "exit"
NoItemNoError == items' = items /\ exc' = NoExc
MissingFieldRaised ==
    /\ exc'.type = "ValueError" /\ Contains(exc'.msg, Cur)
    /\ mpc' = "exit" /\ exit_status' = 1
    /\ items' = items /\ opened' = {} /\ written' = {}
LacksField(b) == ~HasLine(b, TitleField, TRUE) \/ ~HasLine(b, TextField, TRUE)

\* C4 as claimed: a block that is neither blank nor an image header (an
\* img-url: line with a non-blank value) and lacks title: or text: raises
\* the missing-field error naming the block; nothing is written.
C4_MissingFieldRaises ==
    [][(ParseStep /\ ~WhitespaceOnly(Cur) /\ ~ImgUrlNonBlank(Cur) /\ LacksField(Cur))
           => MissingFieldRaised]_vars

\* C4 amended: a block that is not blank and holds no img-url: line at all
\* and lacks title: or text: raises the missing-field error, whose message
\* includes the block; the run ends with no item list and no output file.
C4_MissingFieldRaisesNoImgLine ==
    [][(ParseStep /\ ~WhitespaceOnly(Cur) /\ ~HasLine(Cur, ImgUrl, FALSE) /\ LacksField(Cur))
           => MissingFieldRaised]_vars

\* a block with a title: line and no text: line has ended the run
C4_Witness ==
    /\ mpc = "exit" /\ exc.type = "ValueError" /\ blocki <= Len(itemtexts)
    /\ HasLine(Cur, TitleField, TRUE) /\ ~HasLine(Cur, TextField, TRUE)
    /\ Contains(exc.msg, Cur) /\ opened = {}

\* C5: a block of whitespace only (spaces, tabs, newlines, any length) is
\* skipped: no item, no image information, no error.
C5_WhitespaceSkipped ==
    [][(ParseStep /\ WhitespaceOnly(Cur))
           => (items' = items /\ image' = image /\ exc' = NoExc)]_vars

\* C6 as claimed: a non-blank block is consumed as the image header exactly
\* when it has an img-url: line with a non-blank value; every other
\* non-blank block becomes an item or raises the missing-field error.
C6_HeaderIffUrlValue ==
    [][(ParseStep /\ ~WhitespaceOnly(Cur)) =>
           /\ NoItemNoError <=> ImgUrlNonBlank(Cur)
           /\ ImgUrlNonBlank(Cur) => image'.url = FieldValue(Cur, ImgUrl, FALSE)
           /\ ~ImgUrlNonBlank(Cur) =>
                  \/ Len(items') = Len(items) + 1
                  \/ exc'.type = "ValueError"]_vars

\* C6 amended: a block that is not skipped as blank is consumed as the image
\* header (no item, no title/text needed) exactly when it has an img-url:
\* line, whatever its value; the URL is stored only when the value of the
\* first such line is not all spaces; a block without an img-url: line
\* becomes an item or raises the missing-field error.
C6_HeaderIffImgLine ==
    [][(ParseStep /\ ~AllSpaces(Cur)) =>
           /\ NoItemNoError <=> HasLine(Cur, ImgUrl, FALSE)
           /\ HasLine(Cur, ImgUrl, FALSE) =>
                  IF AllSpaces(FieldValue(Cur, ImgUrl, FALSE))
                  THEN image' = image
                  ELSE image'.url = FieldValue(Cur, ImgUrl, FALSE)
           /\ ~HasLine(Cur, ImgUrl, FALSE) =>
                  \/ Len(items') = Len(items) + 1
                  \/ exc'.type = "ValueError"]_vars

\* a block with img-url:, title: and text: lines was consumed as the header,
\* and one with a blank img-url: value was consumed and stored nothing
C6_Witness ==
    /\ mpc = "parse" /\ blocki = 4 /\ items = <<>> /\ exc = NoExc
    /\ HasLine(itemtexts[2], ImgUrl, FALSE) /\ HasLine(itemtexts[2], TitleField, TRUE)
    /\ image.url = FieldValue(itemtexts[2], ImgUrl, FALSE) /\ image.url # <<>>
    /\ HasLine(itemtexts[3], ImgUrl, FALSE)
    /\ AllSpaces(FieldValue(itemtexts[3], ImgUrl, FALSE))

ParseDone == docs # <<>> /\ filei > Len(docs)
IsItemBlock(b) == ~AllSpaces(b) /\ ~HasLine(b, ImgUrl, FALSE)
ItemBlocks == SelectSeq(Split(docs[1]) \o Split(docs[2]), IsItemBlock)

\* C7: after a successful parse, items is the sequence of item-producing
\* blocks in block order, the primary document's first, then the boilerplate
\* document's: none dropped, duplicated or reordered.
C7_ItemsInBlockOrder ==
    ParseDone =>
        /\ Len(items) = Len(ItemBlocks)
        /\ \A k \in 1..Len(items) : items[k] = MakeItem(ItemBlocks[k])

\* two different items of the primary document and one of the boilerplate
\* document have been parsed
C7_Witness ==
    /\ ParseDone /\ Len(items) = 3
    /\ items[1].title # items[2].title
    /\ Len(SelectSeq(Split(docs[2]), IsItemBlock)) = 1

\* C9: every item of the items list has a non-empty title.
C9_TitlesNonEmpty == \A k \in 1..Len(items) : items[k].title # <<>>

\* ---------------------------------------------------------------- the run
TxtExt == <<".", "t", "x", "t">>
EndsWithTxt(f) == Len(f) >= 4 /\ SubSeq(f, Len(f) - 3, Len(f)) = TxtExt

\* C2: an input name whose extension is .txt makes the run print the warning
\* and exit non-zero before any file is opened for writing.
C2_TxtInputAborts ==
    (Len(argv) = 2 /\ EndsWithTxt(argv[2])) =>
        /\ opened = {}
        /\ mpc = "exit" => (exit_status # 0 /\ ClobberWarning \in Range(stdout))

Assembled == ParseDone /\ newsletter # <<>>

\* C3 as claimed: outputs are written only after parsing and assembly, and
\* the run ends with both written or neither.
C3_BothOrNeither ==
    /\ opened # {} => Assembled
    /\ mpc = "exit" => (out_html_fname \in written <=> out_txt_fname \in written)

\* C3 amended: outputs are opened only after parsing and assembly, the .txt
\* only after the .html is written; a failure before the writes leaves
\* neither, a run ending with status 0 has written both, and only a failing
\* open or write can leave the .html without the .txt.
C3_WritesAfterAssembly ==
    /\ opened # {} => Assembled
    /\ written \subseteq opened
    /\ opened \subseteq {out_html_fname, out_txt_fname}
    /\ out_txt_fname \in opened => out_html_fname \in written
    /\ (mpc = "exit" /\ exc.type # "OSError") =>
           \/ exit_status = 1 /\ opened = {}
           \/ exit_status = 0 /\ exc = NoExc
                  /\ written = {out_html_fname, out_txt_fname}

\* a run has ended with status 0 and both files written
C3_Witness ==
    /\ mpc = "exit" /\ exit_status = 0 /\ Len(items) > 0
    /\ written = {out_html_fname, out_txt_fname}

====
